---------------------------- MODULE Spec2Model ----------------------------
(***************************************************************************)
(* Model of imageB.py: the loop over the tests (paradigm construction,     *)
(* design matrix, mask, scaling, GLM fit, contrast) of the bee-brain       *)
(* calcium-imaging analysis script.                                        *)
(*                                                                         *)
(* Conventions                                                             *)
(*  - Python lists are sequences; Python index i is TLA+ index i+1 (At).   *)
(*  - A raw amplitude (a concentration) is zero or an integer power of     *)
(*    ten: Zero, Pow10(e).  The literal 1 is Pow10(0).                     *)
(*  - A final paradigm amplitude is a fixed-point number in tenths:        *)
(*    10 stands for 1.0, 8 for 0.8.                                        *)
(*  - The preprocessing switches (convert_images, divide_images,           *)
(*    correct_motion, smooth_images) are 0 in the source, so lines         *)
(*    307-373 never run and are not modelled.                              *)
(***************************************************************************)
EXTENDS Integers, Sequences, FiniteSets

VARIABLES
    ntests,          \* setting: number of tests the loop runs
    images_per_run,  \* setting: frames per run
    onset_list,      \* the global list object onset_list
    duration_list,   \* the global list object duration_list
    amplitude_list,  \* the global list object amplitude_list (raw amplitudes)
    ntest,           \* loop variable: index of the current test (0 before the loop)
    pc,              \* position of the script
    rows_lambda1,    \* list object bound to rows_lambda1
    rows_lambda2,    \* list object bound to rows_lambda2
    conditions,      \* list object bound to conditions
    amplitudes,      \* list object bound to amplitudes (tenths)
    onsets,          \* list object bound to onsets
    durations_ref,   \* object the name durations is bound to: "duration_list" or "own"
    durations_obj,   \* the list object created by durations = [...] in tests 3-5
    norm_arg,        \* argument of the last norm_amplitudes call (<<>> if none)
    n_images,        \* len(rows_lambda1) * images_per_run
    img,             \* the loaded volume: voxel -> frame -> intensity
    design_matrix,   \* [rows, cols]: frame count and the column labels
    mask,            \* voxel -> BOOLEAN
    data_size,       \* np.size(data)
    contrast,        \* the contrast vector
    outputs,         \* files written and messages printed: <<test, kind>>
    exc,             \* the uncaught exception that ended the script, if any
    hist,            \* stages entered in the current test, in order
    empty_tests      \* tests whose mask selected no voxel

vars == <<ntests, images_per_run, onset_list, duration_list, amplitude_list,
          ntest, pc, rows_lambda1, rows_lambda2, conditions, amplitudes,
          onsets, durations_ref, durations_obj, norm_arg, n_images, img,
          design_matrix, mask, data_size, contrast, outputs, exc, hist,
          empty_tests>>

settings == <<ntests, images_per_run, onset_list, duration_list, amplitude_list>>

paradigm_vars == <<rows_lambda1, rows_lambda2, conditions, amplitudes, onsets,
                   durations_ref, durations_obj, norm_arg, n_images>>

analysis_vars == <<img, design_matrix, mask, data_size, contrast>>

(***************************************************************************)
(* Bounds of the model.                                                    *)
(***************************************************************************)
NVoxels == 2      \* voxels of a modelled volume
NFrames == 2      \* frames of a modelled volume
MaxExp == 12      \* raw amplitudes 10^-MaxExp .. 10^MaxExp, and zero
MaxAmpLen == 2    \* longest amplitude list given to norm_amplitudes alone
MaxNTests == 6    \* largest ntests setting tried

(***************************************************************************)
(* Settings that switch parts of the script on (1) or off (0).             *)
(***************************************************************************)
run_analysis == 1
plot_design_matrix == 1
plot_contrast == 1

(***************************************************************************)
(* Python list helpers.                                                    *)
(***************************************************************************)
At(s, i) == s[i + 1]

Zeros(n) == [i \in 1..n |-> 0]

RECURSIVE Repeat(_, _)
Repeat(s, n) == IF n = 0 THEN <<>> ELSE s \o Repeat(s, n - 1)

RECURSIVE Flatten(_)
Flatten(ss) == IF ss = <<>> THEN <<>> ELSE Head(ss) \o Flatten(Tail(ss))

Range(s) == {s[i] : i \in DOMAIN s}

(***************************************************************************)
(* Raw amplitudes and norm_amplitudes.                                     *)
(***************************************************************************)
Zero == [zero |-> TRUE, exp |-> 0]
Pow10(e) == [zero |-> FALSE, exp |-> e]

\* np.log10 of a raw amplitude: an exponent, or -inf for 0 (numpy warns and
\* returns -inf; it does not raise).
log10(a) == IF a.zero THEN [fin |-> FALSE, v |-> 0] ELSE [fin |-> TRUE, v |-> a.exp]

\* Faulty variant of OnePlusTenth: the factor 0.1 is lost (1 + x).
OnePlusTenth_NoScale(x) == IF x.fin THEN [fin |-> TRUE, v |-> 10 + 10 * x.v] ELSE x

\* 1 + 0.1 * x in tenths; -inf stays -inf.
OnePlusTenth(x) == IF x.fin THEN [fin |-> TRUE, v |-> 10 + x.v] ELSE x

\* max([x, 0]) for x finite or -inf.
Max0(x) == IF x.fin /\ ~(0 > x.v) THEN x.v ELSE 0

norm_amplitudes(amps) ==
    LET norm_amps == [i \in DOMAIN amps |-> OnePlusTenth(log10(amps[i]))]
    IN  [i \in DOMAIN amps |-> Max0(norm_amps[i])]

\* The value the name durations denotes.
durations == IF durations_ref = "duration_list" THEN duration_list ELSE durations_obj


(***************************************************************************)
(* The paradigm of each test: the values the names are bound to when the   *)
(* branch of the if/elif chain has run.                                    *)
(***************************************************************************)
\* The list objects the name durations can reach: the global duration_list
\* and the list made by durations = [...]; ref says which one the name is
\* bound to.  An in-place extend changes the object the name is bound to.
FreshDurations(items) ==
    [ref |-> "own", duration_list |-> duration_list, durations_obj |-> items]

BoundDurations ==
    [ref |-> durations_ref, duration_list |-> duration_list, durations_obj |-> durations_obj]

DurExtend(st, items) ==
    IF st.ref = "duration_list"
    THEN [st EXCEPT !.duration_list = @ \o items]
    ELSE [st EXCEPT !.durations_obj = @ \o items]

\* [durations.extend(duration_list) for x in range(n)]
RECURSIVE DurExtendByGlobal(_, _)
DurExtendByGlobal(st, n) ==
    IF n = 0 THEN st ELSE DurExtendByGlobal(DurExtend(st, st.duration_list), n - 1)

\* for irun in range(n): durations.append(x)
RECURSIVE DurAppendN(_, _, _)
DurAppendN(st, x, n) ==
    IF n = 0 THEN st ELSE DurAppendN(DurExtend(st, <<x>>), x, n - 1)

\* Tests 1 and 2: durations is bound to the global list object itself.
OdorParadigm(rows1, rows2) ==
    [rows_lambda1  |-> rows1,
     rows_lambda2  |-> rows2,
     conditions    |-> <<0, 0>>,
     amplitudes    |-> <<10, 10>>,
     onsets        |-> <<At(onset_list, 0), At(onset_list, 1)>>,
     durations_ref |-> "duration_list",
     durations_obj |-> durations_obj,
     duration_list |-> duration_list,
     norm_arg      |-> <<>>]

Test1Paradigm == OdorParadigm(<<9>>, <<10>>)

Test2Paradigm == OdorParadigm(<<19>>, <<20>>)

\* Faulty variant of ConcentrationParadigm: the odor-onset events of run r are
\* tagged with an id of their own (r + 1) instead of 0.
ConcentrationParadigm_PerRunIds(rows1, rows2) ==
    LET n_runs  == Len(rows1)
        conds   == Flatten([r \in 1..Len(amplitude_list) |-> <<r, r>>])
                      \o [x \in 1..n_runs |-> n_runs + x]
        oneruns == [x \in 1..n_runs |-> Pow10(0)]
        nested  == [i \in 1..Len(amplitude_list) |->
                       <<amplitude_list[i], amplitude_list[i]>>] \o <<oneruns>>
        raw     == Flatten(nested)
        odor_onsets == Flatten([r \in 1..n_runs |->
                          <<(r - 1) * images_per_run + At(onset_list, 0),
                            (r - 1) * images_per_run + At(onset_list, 1)>>])
        run_onsets  == [r \in 1..n_runs |-> (r - 1) * images_per_run]
    IN  [rows_lambda1  |-> rows1,
         rows_lambda2  |-> rows2,
         conditions    |-> conds,
         amplitudes    |-> norm_amplitudes(raw),
         onsets        |-> odor_onsets \o run_onsets,
         durations_ref |-> "own",
         durations_obj |-> Repeat(duration_list, n_runs)
                              \o [r \in 1..n_runs |-> images_per_run],
         duration_list |-> duration_list,
         norm_arg      |-> raw]

\* Faulty variant of ConcentrationParadigm: the amplitude list is tiled
\* (a0 a1 a2 a3 a0 a1 a2 a3) instead of doubled element by element.
ConcentrationParadigm_TiledAmplitudes(rows1, rows2) ==
    LET n_runs  == Len(rows1)
        conds   == Zeros(2 * Len(amplitude_list)) \o [x \in 1..n_runs |-> (x - 1) + 1]
        oneruns == [x \in 1..n_runs |-> Pow10(0)]
        raw     == amplitude_list \o amplitude_list \o oneruns
        odor_onsets == Flatten([r \in 1..n_runs |->
                          <<(r - 1) * images_per_run + At(onset_list, 0),
                            (r - 1) * images_per_run + At(onset_list, 1)>>])
        run_onsets  == [r \in 1..n_runs |-> (r - 1) * images_per_run]
    IN  [rows_lambda1  |-> rows1,
         rows_lambda2  |-> rows2,
         conditions    |-> conds,
         amplitudes    |-> norm_amplitudes(raw),
         onsets        |-> odor_onsets \o run_onsets,
         durations_ref |-> "own",
         durations_obj |-> Repeat(duration_list, n_runs)
                              \o [r \in 1..n_runs |-> images_per_run],
         duration_list |-> duration_list,
         norm_arg      |-> raw]

\* Faulty variant of ConcentrationParadigm: durations = [] is missing, so the
\* extends act on the list the name is still bound to.
ConcentrationParadigm_NoFreshDurations(rows1, rows2) ==
    LET n_runs  == Len(rows1)
        conds   == Zeros(2 * Len(amplitude_list)) \o [x \in 1..n_runs |-> (x - 1) + 1]
        oneruns == [x \in 1..n_runs |-> Pow10(0)]
        nested  == [i \in 1..Len(amplitude_list) |->
                       <<amplitude_list[i], amplitude_list[i]>>] \o <<oneruns>>
        raw     == Flatten(nested)
        odor_onsets == Flatten([r \in 1..n_runs |->
                          <<(r - 1) * images_per_run + At(onset_list, 0),
                            (r - 1) * images_per_run + At(onset_list, 1)>>])
        run_onsets  == [r \in 1..n_runs |-> (r - 1) * images_per_run]
        dur     == DurAppendN(DurExtendByGlobal(BoundDurations, n_runs),
                              images_per_run, n_runs)
    IN  [rows_lambda1  |-> rows1,
         rows_lambda2  |-> rows2,
         conditions    |-> conds,
         amplitudes    |-> norm_amplitudes(raw),
         onsets        |-> odor_onsets \o run_onsets,
         durations_ref |-> dur.ref,
         durations_obj |-> dur.durations_obj,
         duration_list |-> dur.duration_list,
         norm_arg      |-> raw]

\* Tests 3 and 4: the same code on different rows.
ConcentrationParadigm(rows1, rows2) ==
    LET n_runs  == Len(rows1)
        conds   == Zeros(2 * Len(amplitude_list)) \o [x \in 1..n_runs |-> (x - 1) + 1]
        oneruns == [x \in 1..n_runs |-> Pow10(0)]
        nested  == [i \in 1..Len(amplitude_list) |->
                       <<amplitude_list[i], amplitude_list[i]>>] \o <<oneruns>>
        raw     == Flatten(nested)
        odor_onsets == Flatten([r \in 1..n_runs |->
                          <<(r - 1) * images_per_run + At(onset_list, 0),
                            (r - 1) * images_per_run + At(onset_list, 1)>>])
        run_onsets  == [r \in 1..n_runs |-> (r - 1) * images_per_run]
        dur     == DurAppendN(DurExtendByGlobal(FreshDurations(<<>>), n_runs),
                              images_per_run, n_runs)
    IN  [rows_lambda1  |-> rows1,
         rows_lambda2  |-> rows2,
         conditions    |-> conds,
         amplitudes    |-> norm_amplitudes(raw),
         onsets        |-> odor_onsets \o run_onsets,
         durations_ref |-> dur.ref,
         durations_obj |-> dur.durations_obj,
         duration_list |-> dur.duration_list,
         norm_arg      |-> raw]

Test3Paradigm == ConcentrationParadigm(<<3, 5, 7, 9>>, <<4, 6, 8, 10>>)

Test4Paradigm == ConcentrationParadigm(<<13, 15, 17, 19>>, <<14, 16, 18, 20>>)

\* Faulty variant of Test5Paradigm: the awake block is placed two runs after the
\* asleep block instead of one.
Test5Paradigm_AwakeTwoRunsLater ==
    [rows_lambda1  |-> <<9>> \o <<19>>,
     rows_lambda2  |-> <<10>> \o <<20>>,
     conditions    |-> <<0, 0, 0, 0, 1, 2>>,
     amplitudes    |-> <<10, 10, 10, 10, 10, 10>>,
     onsets        |-> <<At(onset_list, 0), At(onset_list, 1),
                         At(onset_list, 0) + 2 * images_per_run,
                         At(onset_list, 1) + 2 * images_per_run,
                         0, 2 * images_per_run>>,
     durations_ref |-> "own",
     durations_obj |-> <<At(duration_list, 0), At(duration_list, 1),
                         At(duration_list, 0), At(duration_list, 1)>>
                          \o <<images_per_run, images_per_run>>,
     duration_list |-> duration_list,
     norm_arg      |-> <<>>]

\* Test 5: rows_lambda1 is bound to the fresh list rows_lambda1_asleep, which
\* is then extended in place; durations is a fresh list, extended in place.
Test5Paradigm ==
    LET dur == DurExtend(FreshDurations(<<At(duration_list, 0), At(duration_list, 1),
                                          At(duration_list, 0), At(duration_list, 1)>>),
                         <<images_per_run, images_per_run>>)
    IN  [rows_lambda1  |-> <<9>> \o <<19>>,
         rows_lambda2  |-> <<10>> \o <<20>>,
         conditions    |-> <<0, 0, 0, 0, 1, 2>>,
         amplitudes    |-> <<10, 10, 10, 10, 10, 10>>,
         onsets        |-> <<At(onset_list, 0), At(onset_list, 1),
                             At(onset_list, 0) + images_per_run,
                             At(onset_list, 1) + images_per_run,
                             0, images_per_run>>,
         durations_ref |-> dur.ref,
         durations_obj |-> dur.durations_obj,
         duration_list |-> dur.duration_list,
         norm_arg      |-> <<>>]

\* No branch of the chain matches (there is no else): every name keeps the
\* object it was bound to by the previous iteration.
LeftoverParadigm ==
    [rows_lambda1  |-> rows_lambda1,
     rows_lambda2  |-> rows_lambda2,
     conditions    |-> conditions,
     amplitudes    |-> amplitudes,
     onsets        |-> onsets,
     durations_ref |-> durations_ref,
     durations_obj |-> durations_obj,
     duration_list |-> duration_list,
     norm_arg      |-> <<>>]

ParadigmOf(k) ==
    IF k = 1 THEN Test1Paradigm
    ELSE IF k = 2 THEN Test2Paradigm
    ELSE IF k = 3 THEN Test3Paradigm
    ELSE IF k = 4 THEN Test4Paradigm
    ELSE IF k = 5 THEN Test5Paradigm
    ELSE LeftoverParadigm

(***************************************************************************)
(* The design matrix, the volume and the mask.                             *)
(***************************************************************************)
RECURSIVE SortedSeq(_)
SortedSeq(S) ==
    IF S = {} THEN <<>>
    ELSE LET m == CHOOSE x \in S : \A y \in S : x <= y
         IN  <<m>> \o SortedSeq(S \ {m})

\* Column labels of make_dmtx with the FIR model and one delay: one column
\* per distinct condition id, in id order, then n_drift drift columns.
make_dmtx(con_id, n_drift) ==
    LET ids == SortedSeq(Range(con_id))
    IN  [j \in 1..Len(ids) |-> [kind |-> "cond", id |-> ids[j]]]
           \o [j \in 1..n_drift |-> [kind |-> "drift", id |-> j]]

Voxels == 1..NVoxels
Frames == 1..NFrames
Intensities == {0, 1}
Volumes == [Voxels -> [Frames -> Intensities]]

RECURSIVE SumSeq(_)
SumSeq(s) == IF s = <<>> THEN 0 ELSE Head(s) + SumSeq(Tail(s))

\* np.sum(img.get_data(), axis=-1) > 0
ComputeMaskOf(volume) == [x \in Voxels |-> SumSeq(volume[x]) > 0]

\* np.size(data) for data = img.get_data()[mask].T
SizeOfData(m) == NFrames * Cardinality({x \in Voxels : m[x]})

\* Faulty variant of ContrastOf: test 5 weights the first two columns, [1 -1 0 ..].
ContrastOf_FirstTwo(k, ncols) ==
    IF k < 5
    THEN [j \in 1..ncols |-> IF j = 0 + 1 THEN 1 ELSE 0]
    ELSE [j \in 1..ncols |-> IF j = 0 + 1 THEN 1 ELSE IF j = 1 + 1 THEN -1 ELSE 0]

\* contrast = np.zeros(ncols); contrast[i] = w for the (index, weight) pairs
ContrastOf(k, ncols) ==
    IF k < 5
    THEN [j \in 1..ncols |-> IF j = 0 + 1 THEN 1 ELSE 0]
    ELSE [j \in 1..ncols |-> IF j = 1 + 1 THEN 1 ELSE IF j = 2 + 1 THEN -1 ELSE 0]

(***************************************************************************)
(* The script.                                                             *)
(***************************************************************************)
NoExc == [test |-> 0, kind |-> "none"]

StageOrder == <<"BuildParadigm", "BuildDesignMatrix", "ComputeMask", "ScaleData",
                "FitGLM", "ComputeContrast", "Done">>

Enter(stage) == pc' = stage /\ hist' = Append(hist, stage)

Raise(kind) ==
    /\ exc' = [test |-> ntest, kind |-> kind]
    /\ pc' = "crashed"
    /\ hist' = hist

\* The state when the loop is reached, but for ntests, onset_list, pc and
\* norm_arg.  Names that are not bound yet hold empty values.
InitCommon ==
    /\ images_per_run = 232
    /\ duration_list = <<11, 11>>
    /\ amplitude_list = <<Pow10(-6), Pow10(-4), Pow10(-3), Pow10(-2)>>
    /\ ntest = 0
    /\ rows_lambda1 = <<>>
    /\ rows_lambda2 = <<>>
    /\ conditions = <<>>
    /\ amplitudes = <<>>
    /\ onsets = <<>>
    /\ durations_ref = "own"
    /\ durations_obj = <<>>
    /\ n_images = 0
    /\ img = [x \in Voxels |-> [f \in Frames |-> 0]]
    /\ design_matrix = [rows |-> 0, cols |-> <<>>]
    /\ mask = [x \in Voxels |-> FALSE]
    /\ data_size = 0
    /\ contrast = <<>>
    /\ outputs = {}
    /\ exc = NoExc
    /\ hist = <<>>
    /\ empty_tests = {}

\* The script as written: ntests = 5, onset_list = [73, 93].
Init ==
    /\ InitCommon
    /\ ntests = 5
    /\ onset_list = <<73, 93>>
    /\ pc = "start"
    /\ norm_arg = <<>>

\* for itest in range(ntests): ntest = itest + 1
LoopNext ==
    /\ pc \in {"start", "Done"}
    /\ IF ntest < ntests
       THEN /\ ntest' = ntest + 1
            /\ pc' = "BuildParadigm"
            /\ hist' = <<"BuildParadigm">>
       ELSE /\ pc' = "finished"
            /\ UNCHANGED <<ntest, hist>>
    /\ UNCHANGED <<settings, paradigm_vars, analysis_vars, outputs, exc, empty_tests>>

\* the if/elif chain on ntest, and n_images
BuildParadigm ==
    /\ pc = "BuildParadigm"
    /\ LET p == ParadigmOf(ntest)
       IN  /\ rows_lambda1' = p.rows_lambda1
           /\ rows_lambda2' = p.rows_lambda2
           /\ conditions' = p.conditions
           /\ amplitudes' = p.amplitudes
           /\ onsets' = p.onsets
           /\ durations_ref' = p.durations_ref
           /\ durations_obj' = p.durations_obj
           /\ duration_list' = p.duration_list
           /\ norm_arg' = p.norm_arg
           /\ n_images' = Len(p.rows_lambda1) * images_per_run
    /\ outputs' = IF ntest \in 1..5 THEN outputs \cup {<<ntest, "print_desc">>} ELSE outputs
    /\ pc' = IF run_analysis = 1 THEN "LoadImage" ELSE "Done"
    /\ hist' = IF run_analysis = 1 THEN hist ELSE Append(hist, "Done")
    /\ UNCHANGED <<ntests, images_per_run, onset_list, amplitude_list, ntest,
                   analysis_vars, exc, empty_tests>>

\* img = nb.load(smooth_file): the file holds some volume, or cannot be read
LoadImage ==
    /\ pc = "LoadImage"
    /\ \/ /\ \E v \in Volumes : img' = v
          /\ Enter("BuildDesignMatrix")
          /\ UNCHANGED exc
       \/ /\ Raise("IOError")
          /\ UNCHANGED img
    /\ UNCHANGED <<settings, ntest, paradigm_vars, design_matrix, mask, data_size,
                   contrast, outputs, empty_tests>>

\* BlockParadigm, frametimes, make_dmtx, the design-matrix figure
BuildDesignMatrix ==
    /\ pc = "BuildDesignMatrix"
    /\ design_matrix' = [rows |-> n_images,
                         cols |-> make_dmtx(conditions, IF ntest < 3 THEN 2 + 1 ELSE 0)]
    /\ outputs' = outputs \cup {<<ntest, "print_design">>}
                     \cup (IF plot_design_matrix = 1
                           THEN {<<ntest, "design_matrix_fig">>} ELSE {})
    /\ Enter("ComputeMask")
    /\ UNCHANGED <<settings, ntest, paradigm_vars, img, mask, data_size, contrast,
                   exc, empty_tests>>

\* Faulty variant of ComputeMask: the fit follows the mask directly (no scaling).
ComputeMask_ThenFit ==
    /\ pc = "ComputeMask"
    /\ mask' = ComputeMaskOf(img)
    /\ Enter("FitGLM")
    /\ UNCHANGED <<settings, ntest, paradigm_vars, img, design_matrix, data_size,
                   contrast, outputs, exc, empty_tests>>

\* mask = np.sum(img.get_data(), axis=-1) > 0
ComputeMask ==
    /\ pc = "ComputeMask"
    /\ mask' = ComputeMaskOf(img)
    /\ Enter("ScaleData")
    /\ UNCHANGED <<settings, ntest, paradigm_vars, img, design_matrix, data_size,
                   contrast, outputs, exc, empty_tests>>

\* Faulty variant of ScaleData: the test of np.size(data) is missing.
ScaleData_NoSizeCheck ==
    /\ pc = "ScaleData"
    /\ data_size' = SizeOfData(mask)
    /\ empty_tests' = IF SizeOfData(mask) = 0 THEN empty_tests \cup {ntest} ELSE empty_tests
    /\ Enter("FitGLM")
    /\ UNCHANGED <<settings, ntest, paradigm_vars, img, design_matrix, mask,
                   contrast, outputs, exc>>

\* data, mean = data_scaling(img.get_data()[mask].T); if np.size(data):
ScaleData ==
    /\ pc = "ScaleData"
    /\ data_size' = SizeOfData(mask)
    /\ empty_tests' = IF SizeOfData(mask) = 0 THEN empty_tests \cup {ntest} ELSE empty_tests
    /\ IF SizeOfData(mask) # 0 THEN Enter("FitGLM") ELSE Enter("Done")
    /\ UNCHANGED <<settings, ntest, paradigm_vars, img, design_matrix, mask,
                   contrast, outputs, exc>>

\* glm = GeneralLinearModel(design_matrix); glm.fit(data, model="ar1")
FitGLM ==
    /\ pc = "FitGLM"
    /\ \/ /\ outputs' = outputs \cup {<<ntest, "print_glm">>}
          /\ Enter("ComputeContrast")
          /\ UNCHANGED exc
       \/ /\ outputs' = outputs \cup {<<ntest, "print_glm">>}
          /\ Raise("FitError")
    /\ UNCHANGED <<settings, ntest, paradigm_vars, analysis_vars, empty_tests>>

\* the contrast vector, the z-map file and the contrast figure
ComputeContrast ==
    /\ pc = "ComputeContrast"
    /\ contrast' = ContrastOf(ntest, Len(design_matrix.cols))
    /\ outputs' = outputs \cup {<<ntest, "print_contrast">>, <<ntest, "zmap">>}
                     \cup (IF plot_contrast = 1
                           THEN {<<ntest, "contrast_fig">>} ELSE {})
    /\ Enter("Done")
    /\ UNCHANGED <<settings, ntest, paradigm_vars, img, design_matrix, mask,
                   data_size, exc, empty_tests>>

Next ==
    \/ LoopNext
    \/ BuildParadigm
    \/ LoadImage
    \/ BuildDesignMatrix
    \/ ComputeMask
    \/ ScaleData
    \/ FitGLM
    \/ ComputeContrast

Spec == Init /\ [][Next]_vars

(***************************************************************************)
(* The script with its Settings section edited: any ntests up to           *)
(* MaxNTests, and an onset_list whose second odor onset lies near the end  *)
(* of the run.                                                             *)
(***************************************************************************)
OnsetLists == {<<73, 93>>, <<73, 225>>}

InitCfg ==
    /\ InitCommon
    /\ ntests \in 1..MaxNTests
    /\ onset_list \in OnsetLists
    /\ pc = "start"
    /\ norm_arg = <<>>

SpecCfg == InitCfg /\ [][Next]_vars

(***************************************************************************)
(* norm_amplitudes on its own: one call on any list of raw amplitudes.     *)
(***************************************************************************)
Amps == {Zero} \cup {Pow10(e) : e \in (0 - MaxExp)..MaxExp}

AmpLists == UNION {[1..n -> Amps] : n \in 1..MaxAmpLen}

InitNorm ==
    /\ InitCommon
    /\ ntests = 5
    /\ onset_list = <<73, 93>>
    /\ pc = "norm_call"
    /\ norm_arg \in AmpLists

\* amplitudes = norm_amplitudes(amplitudes)
NormCall ==
    /\ pc = "norm_call"
    /\ amplitudes' = norm_amplitudes(norm_arg)
    /\ pc' = "norm_ret"
    /\ UNCHANGED <<settings, ntest, rows_lambda1, rows_lambda2, conditions, onsets,
                   durations_ref, durations_obj, norm_arg, n_images, analysis_vars,
                   outputs, exc, hist, empty_tests>>

NextNorm == NormCall

SpecNorm == InitNorm /\ [][NextNorm]_vars

(***************************************************************************)
(* Properties.                                                             *)
(***************************************************************************)
Entered(stage) == stage \in Range(hist)

Failed(k) == exc.test = k /\ exc.kind # "none"

\* C1: a failure inside test k's pipeline (the volume cannot be loaded, the
\* GLM fit fails) ends only test k: for every k below the last test, the
\* script goes on to start test k+1 (it has started it already, or the
\* step that starts it is enabled).
C1_FailureEndsOnlyThatTest ==
    \A k \in 1..(ntests - 1) :
        Failed(k) => (ntest > k \/ ENABLED LoopNext)

\* C2: when the mask of test k selects zero voxels, the GLM fit and the
\* contrast computation of test k are skipped, no z-map file and no
\* contrast figure are written for test k, no exception ends the script,
\* and the script goes on with test k+1: from ScaleData it steps to the end
\* of the iteration, and from there the only step is the start of test k+1,
\* which is enabled.
C2_SkippedState ==
    \A k \in empty_tests :
        /\ <<k, "zmap">> \notin outputs
        /\ <<k, "contrast_fig">> \notin outputs
        /\ <<k, "print_glm">> \notin outputs
        /\ <<k, "print_contrast">> \notin outputs
        /\ ~Failed(k)
        /\ k = ntest => /\ ~Entered("FitGLM")
                        /\ ~Entered("ComputeContrast")
                        /\ pc \in {"Done", "finished"}
                        /\ (pc = "Done" /\ k < ntests) => ENABLED LoopNext

C2_SkippedStep ==
    /\ (pc = "ScaleData" /\ SizeOfData(mask) = 0) => (pc' = "Done" /\ ntest' = ntest)
    /\ (pc = "Done" /\ ntest \in empty_tests /\ ntest < ntests)
          => (pc' = "BuildParadigm" /\ ntest' = ntest + 1)

C2_EmptyMaskSkipsFitAndContrast == [](C2_SkippedState) /\ [][C2_SkippedStep]_vars

\* C2 witness: test k had an empty mask and test k+1 has reached its GLM fit.
C2_Witness ==
    /\ ntest - 1 \in empty_tests
    /\ pc = "FitGLM"
    /\ <<ntest - 1, "design_matrix_fig">> \in outputs

\* C3: when the mask of a test selects zero voxels, an explicit EmptyMask
\* outcome is observable for that test: an EmptyMask message or an
\* EmptyMaskError.
C3_EmptyMaskIsSignalled ==
    \A k \in empty_tests :
        \/ <<k, "EmptyMask">> \in outputs
        \/ (exc.test = k /\ exc.kind = "EmptyMaskError")

IsPrefix(a, b) == Len(a) <= Len(b) /\ \A i \in 1..Len(a) : a[i] = b[i]

Count(s, x) == Cardinality({i \in DOMAIN s : s[i] = x})

\* The stages of a test whose mask selects no voxel.
SkipOrder == <<"BuildParadigm", "BuildDesignMatrix", "ComputeMask", "ScaleData", "Done">>

C4_InOrder ==
    /\ IsPrefix(hist, StageOrder) \/ (hist = SkipOrder /\ ntest \in empty_tests)
    /\ pc \in Range(StageOrder) => (hist # <<>> /\ hist[Len(hist)] = pc)

C4_NextTestAfterDone ==
    ntest' # ntest => /\ ntest' = ntest + 1
                      /\ hist' = <<"BuildParadigm">>
                      /\ ntest = 0 \/ (hist # <<>> /\ hist[Len(hist)] = "Done")

ParadigmReady == ntest \in 1..5 /\ pc \notin {"start", "BuildParadigm", "norm_call", "norm_ret"}

Events == 1..Len(onsets)

ExpectedT(k) == IF k <= 2 THEN 232 ELSE IF k <= 4 THEN 928 ELSE 464

\* C5: for every test 1..5, every event of the paradigm satisfies
\* onset + duration <= T, where T = n_images = len(rows_lambda1) *
\* images_per_run (232 for tests 1-2, 928 for tests 3-4, 464 for test 5) is
\* the length of the frame-time axis of the design matrix.
C5_EventsFitInFrames ==
    ParadigmReady =>
        /\ n_images = Len(rows_lambda1) * images_per_run
        /\ n_images = ExpectedT(ntest)
        /\ Len(durations) = Len(onsets)
        /\ \A i \in Events : onsets[i] + durations[i] <= n_images
        /\ Entered("ComputeMask") => design_matrix.rows = n_images

\* C5 witness: the design matrix of test 5 is built, and an event ends
\* exactly at the last frame.
C5_Witness ==
    /\ ntest = 5
    /\ pc = "ComputeMask"
    /\ design_matrix.rows = 464
    /\ \E i \in Events : onsets[i] + durations[i] = n_images

\* An odor-onset event: it starts at an onset of onset_list within its run
\* and is shorter than the run.  A baseline event covers a whole run.
IsOdorEvent(i) ==
    /\ onsets[i] % images_per_run \in Range(onset_list)
    /\ durations[i] < images_per_run

IsBaselineEvent(i) == onsets[i] % images_per_run = 0 /\ durations[i] = images_per_run

RunOf(i) == onsets[i] \div images_per_run

Cond(c) == [kind |-> "cond", id |-> c]

ContrastReady == ntest \in 1..5 /\ pc = "Done" /\ Entered("ComputeContrast")

C7_OnsetIdsUniquePerRun ==
    (ParadigmReady /\ ntest \in {3, 4}) =>
        \A i, j \in Events :
            (IsOdorEvent(i) /\ IsOdorEvent(j) /\ RunOf(i) # RunOf(j))
                => conditions[i] # conditions[j]

\* C7 (amended): in tests 3 and 4 the odor-onset events of all runs, two
\* per run, share condition id 0; the condition ids unique to a run are
\* those of the whole-run baseline events: the baseline event of run r
\* (r = 0..3) has condition id r + 1.
C7_OnsetsShareIdZero ==
    (ParadigmReady /\ ntest \in {3, 4}) =>
        /\ Len(conditions) = Len(onsets)
        /\ \A i \in Events : IsOdorEvent(i) => conditions[i] = 0
        /\ \A r \in 0..3 : Cardinality({i \in Events : IsOdorEvent(i) /\ RunOf(i) = r}) = 2
        /\ \A i \in Events : IsBaselineEvent(i) => conditions[i] = RunOf(i) + 1
        /\ \A i \in Events : IsOdorEvent(i) \/ IsBaselineEvent(i)

\* C7 witness: the paradigm of test 4 is built and holds odor-onset events
\* of different runs.
C7_Witness ==
    /\ ntest = 4
    /\ pc = "LoadImage"
    /\ \E i, j \in Events : IsOdorEvent(i) /\ IsOdorEvent(j) /\ RunOf(i) # RunOf(j)

\* max(0, 1 + 0.1 * log10(a)) in tenths, for a zero or a power of ten.
ExpectedNorm(a) == IF a.zero THEN 0 ELSE IF 10 + a.exp > 0 THEN 10 + a.exp ELSE 0

\* C8: in tests 3 and 4 the four paradigm lists have the same length and
\* are index-aligned: for every run r in 0..3 and i in {0, 1} exactly one
\* event has onset r * images_per_run + onset_list[i], and it has duration
\* duration_list[i] and amplitude norm(amplitude_list[r]); for every run r
\* exactly one event has onset r * images_per_run, and it has duration
\* images_per_run and amplitude exactly 1.
C8_ListsAligned ==
    (ParadigmReady /\ ntest \in {3, 4}) =>
        /\ Len(conditions) = Len(onsets)
        /\ Len(durations) = Len(onsets)
        /\ Len(amplitudes) = Len(onsets)
        /\ Len(onsets) = 12
        /\ \A r \in 0..3 : \A i \in {0, 1} :
              LET on == r * images_per_run + At(onset_list, i)
                  ev == {e \in Events : onsets[e] = on}
              IN  /\ Cardinality(ev) = 1
                  /\ \A e \in ev : /\ durations[e] = At(duration_list, i)
                                   /\ amplitudes[e] = ExpectedNorm(At(amplitude_list, r))
        /\ \A r \in 0..3 :
              LET ev == {e \in Events : onsets[e] = r * images_per_run}
              IN  /\ Cardinality(ev) = 1
                  /\ \A e \in ev : durations[e] = images_per_run /\ amplitudes[e] = 10

\* C8 witness: the paradigm of test 3 is built with the normalized
\* amplitudes 0.4, 0.6, 0.7, 0.8 and the unit baselines.
C8_Witness ==
    /\ ntest = 3
    /\ pc = "BuildDesignMatrix"
    /\ amplitudes = <<4, 4, 6, 6, 7, 7, 8, 8, 10, 10, 10, 10>>

\* C9: norm_amplitudes is total and non-negative: it returns one value per
\* input, each equal to max(0, 1 + 0.1 * log10(a)) and >= 0; norm(1) = 1,
\* norm(10^-2) = 0.8, and 0 and every power of ten <= 10^-10 map to 0.
C9_NormTotalNonNegative ==
    (norm_arg # <<>> /\ pc # "norm_call") =>
        /\ Len(amplitudes) = Len(norm_arg)
        /\ \A i \in 1..Len(norm_arg) :
              /\ amplitudes[i] >= 0
              /\ amplitudes[i] = ExpectedNorm(norm_arg[i])
              /\ norm_arg[i] = Pow10(0) => amplitudes[i] = 10
              /\ norm_arg[i] = Pow10(-2) => amplitudes[i] = 8
              /\ (norm_arg[i].zero \/ norm_arg[i].exp <= -10) => amplitudes[i] = 0

\* C9 witness: the call has returned for an input holding 0 and 10^-11.
C9_Witness ==
    /\ pc = "norm_ret"
    /\ norm_arg = <<Zero, Pow10(-11)>>
    /\ amplitudes = <<0, 0>>

\* The paradigm in force is one the design matrix must not be built from.
BadParadigm ==
    \/ ntest \notin 1..5
    \/ \E i \in Events : onsets[i] + durations[i] > n_images

\* C10: paradigm construction fails with a ConfigurationError when the test
\* index is outside 1..5 or when an onset + duration exceeds the frame
\* count; the design matrix is never built from such a paradigm.
C10_BadParadigmIsRejected ==
    (ntest >= 1 /\ pc \notin {"start", "BuildParadigm"} /\ BadParadigm) =>
        /\ exc = [test |-> ntest, kind |-> "ConfigurationError"]
        /\ ~Entered("BuildDesignMatrix")

\* The four paradigm lists of test k when it runs from the settings as
\* written, whatever ran before: conditions, onsets, durations, amplitudes.
StandaloneParadigm(k) ==
    IF k <= 2
    THEN [conditions |-> <<0, 0>>,
          onsets     |-> <<73, 93>>,
          durations  |-> <<11, 11>>,
          amplitudes |-> <<10, 10>>]
    ELSE IF k <= 4
    THEN [conditions |-> <<0, 0, 0, 0, 0, 0, 0, 0, 1, 2, 3, 4>>,
          onsets     |-> <<73, 93, 305, 325, 537, 557, 769, 789, 0, 232, 464, 696>>,
          durations  |-> <<11, 11, 11, 11, 11, 11, 11, 11, 232, 232, 232, 232>>,
          amplitudes |-> <<4, 4, 6, 6, 7, 7, 8, 8, 10, 10, 10, 10>>]
    ELSE [conditions |-> <<0, 0, 0, 0, 1, 2>>,
          onsets     |-> <<73, 93, 305, 325, 0, 232>>,
          durations  |-> <<11, 11, 11, 11, 232, 232>>,
          amplitudes |-> <<10, 10, 10, 10, 10, 10>>]

\* C11: onset_list, duration_list, amplitude_list and images_per_run have,
\* after every step of every test of the run 1..5, the value they had
\* before the loop, although tests 1 and 2 bind durations to the list
\* object duration_list and tests 3-5 extend their lists in place; hence
\* the paradigm of test k is the one test k builds on its own.
C11_GlobalsUnchanged ==
    /\ onset_list = <<73, 93>>
    /\ duration_list = <<11, 11>>
    /\ amplitude_list = <<Pow10(-6), Pow10(-4), Pow10(-3), Pow10(-2)>>
    /\ images_per_run = 232
    /\ ParadigmReady =>
          /\ conditions = StandaloneParadigm(ntest).conditions
          /\ onsets = StandaloneParadigm(ntest).onsets
          /\ durations = StandaloneParadigm(ntest).durations
          /\ amplitudes = StandaloneParadigm(ntest).amplitudes
          /\ ntest <= 2 <=> durations_ref = "duration_list"

\* C11 witness: all five tests have run: durations was bound to
\* duration_list in tests 1 and 2 and the lists of tests 3-5 were extended
\* in place after that.
C11_Witness ==
    /\ pc = "finished"
    /\ ntest = 5
    /\ {<<k, "print_desc">> : k \in 1..5} \subseteq outputs
    /\ durations_ref = "own"
    /\ Len(durations_obj) = 6
    /\ duration_list = <<11, 11>>

=============================================================================
